---- MODULE Spec2Model ----
(***************************************************************************)
(* Return-recommendation engine of app.py: preprocess_data (Normalizer),   *)
(* calculate_effective_sold_qty (Sales Estimator),                         *)
(* get_top20_percent_threshold (Percentile Calculator),                    *)
(* generate_return_recommendations (Recommendation Engine) and             *)
(* quality_check (Verifier).                                               *)
(*                                                                         *)
(* Encoding.                                                               *)
(*  - A text cell is a sequence of one-character strings, so that          *)
(*    str.strip, str.split, str.isdigit and str.zfill are computed.        *)
(*  - A raw numeric cell is a record [k, h]: k = "num" is the number h/2   *)
(*    (halves, so 2.5 and -0.5 are inputs), k = "nan" is a missing value   *)
(*    (pd.isna), k = "bad" is a value float() or int() raises on.          *)
(*  - A table is the pair (columns, rows): a row is a record with one      *)
(*    field per known column; the field of an absent column holds a fixed  *)
(*    placeholder and is only read through the column test of the code.    *)
(*  - The percentile threshold is a rational with denominator 5, kept as   *)
(*    its numerator x5 (0.8 = 4/5), or +infinity.                          *)
(***************************************************************************)
EXTENDS Integers, Sequences, FiniteSets, TLC

VARIABLES
    pc,              \* position of the run: "loaded", "processed", "direct",
                     \* "failed" once a KeyError ended it; "handbuilt" for
                     \* the two tables a test hands to quality_check
    columns,         \* column names of the uploaded table df
    df,              \* rows of the uploaded table (raw cells)
    df_processed,    \* rows handed to the engine: those preprocess_data returned
                     \* ("processed"), or df as it is ("direct"); <<>> before
    computed,        \* calculation types generate_return_recommendations ran with
    recommendations, \* calculation type -> recommendation rows it returned
    evals,           \* calculation type -> per input row, the locals of the loop body
    raised,          \* the column whose subscript raised KeyError, "" if none
    checks           \* calculation type -> what quality_check did with its result

vars == <<pc, columns, df, df_processed, computed, recommendations, evals, raised,
          checks>>

(***************************************************************************)
(* Bounds of the explored inputs.                                          *)
(***************************************************************************)
MaxRows == 2     \* rows of an uploaded table
MaxSold == 2     \* largest in-range sales figure of the first row
MaxRecs == 2     \* rows of a recommendation table built by hand

(***************************************************************************)
(* Program constants.                                                      *)
(***************************************************************************)
ArticleWidth == 12
SalesCap == 100000

Min2(a, b) == IF a <= b THEN a ELSE b
Max2(a, b) == IF a >= b THEN a ELSE b

(***************************************************************************)
(* Text helpers: str.strip, str.split('.')[0], str.isdigit, str.zfill.     *)
(***************************************************************************)
Digits == {"0", "1", "2", "3", "4", "5", "6", "7", "8", "9"}

RECURSIVE LStrip(_)
LStrip(s) == IF s # <<>> /\ Head(s) = " " THEN LStrip(Tail(s)) ELSE s

RECURSIVE RStrip(_)
RStrip(s) ==
    IF s # <<>> /\ s[Len(s)] = " " THEN RStrip(SubSeq(s, 1, Len(s) - 1)) ELSE s

Strip(s) == RStrip(LStrip(s))

RECURSIVE BeforeDot(_)
BeforeDot(s) ==
    IF s = <<>> \/ Head(s) = "." THEN <<>>
    ELSE <<Head(s)>> \o BeforeDot(Tail(s))

HasDot(s) == \E i \in 1..Len(s) : s[i] = "."

IsDigit(s) == s # <<>> /\ \A i \in 1..Len(s) : s[i] \in Digits

RECURSIVE ZFill(_, _)
ZFill(s, w) == IF Len(s) >= w THEN s ELSE ZFill(<<"0">> \o s, w)

\* A text cell: k = "str" carries the characters s, k = "nan" is pd.isna.
convert_to_string_format(value) ==
    IF value.k = "nan" THEN <<>>
    ELSE LET value_str == Strip(value.s)
             cut == IF HasDot(value_str) THEN BeforeDot(value_str) ELSE value_str
         IN  IF IsDigit(cut) /\ Len(cut) <= ArticleWidth
             THEN ZFill(cut, ArticleWidth)
             ELSE cut

safe_convert_to_string(value) ==
    IF value.k = "nan" THEN <<>> ELSE Strip(value.s)

(***************************************************************************)
(* int(float(value)) truncates toward zero; h is the value in halves.      *)
(***************************************************************************)
TruncHalf(h) == IF h >= 0 THEN h \div 2 ELSE -((-h) \div 2)

\* mutant: negative values are not floored at 0
safe_convert_to_int_NoFloor(value) ==
    IF value.k = "nan" THEN 0
    ELSE IF value.k = "bad" THEN 0
    ELSE TruncHalf(value.h)

safe_convert_to_int(value) ==
    IF value.k = "nan" THEN 0
    ELSE IF value.k = "bad" THEN 0
    ELSE Max2(0, TruncHalf(value.h))

(***************************************************************************)
(* Columns.  The code tests `col in df_processed.columns` for the string   *)
(* and integer columns and reads rows with row.get(col, default) for the   *)
(* two sales columns and Notes.                                            *)
(***************************************************************************)
string_columns == {"OM", "RPType", "Site"}
int_columns == {"NetStock", "PendingReceived", "SafetyStock", "LastMonthSold", "MTDSold"}
sales_columns == <<"LastMonthSold", "MTDSold">>
AllColumns == {"Article"} \cup string_columns \cup int_columns

\* Placeholders held by the fields of absent columns.
NoText == <<>>

\* f'{col}...' of preprocess_data: the annotation names the column.
RangeNote(col) ==
    IF col = "LastMonthSold" THEN "Last Month Sold Qty out of range"
    ELSE "MTD Sold Qty out of range"

\* '; '.join(parts)
RECURSIVE Join(_)
Join(parts) ==
    IF parts = <<>> THEN ""
    ELSE IF Len(parts) = 1 THEN parts[1]
    ELSE parts[1] \o "; " \o Join(Tail(parts))

(***************************************************************************)
(* preprocess_data, one row.  cols is the column set of the table.         *)
(***************************************************************************)
ConvertedInt(cols, row, col) ==
    IF col \in cols THEN safe_convert_to_int(row[col]) ELSE 0

ConvertedText(cols, row, col) ==
    IF col \in cols THEN safe_convert_to_string(row[col]) ELSE NoText

\* the sales-range loop over ['Last Month Sold Qty', 'MTD Sold Qty']
RECURSIVE RangeNotes(_, _, _)
RangeNotes(cols, row, todo) ==
    IF todo = <<>> THEN <<>>
    ELSE LET col == Head(todo)
             here == IF col \in cols /\ ConvertedInt(cols, row, col) > SalesCap
                     THEN <<RangeNote(col)>> ELSE <<>>
         IN  here \o RangeNotes(cols, row, Tail(todo))

\* mutant: the value above the cap is annotated but not clamped
ClampedSales_NoClamp(cols, row, col) == ConvertedInt(cols, row, col)

ClampedSales(cols, row, col) ==
    IF col \in cols /\ ConvertedInt(cols, row, col) > SalesCap
    THEN SalesCap
    ELSE ConvertedInt(cols, row, col)

PreprocessRow(cols, row) ==
    [Article         |-> convert_to_string_format(row.Article),
     OM              |-> ConvertedText(cols, row, "OM"),
     RPType          |-> ConvertedText(cols, row, "RPType"),
     Site            |-> ConvertedText(cols, row, "Site"),
     NetStock        |-> ConvertedInt(cols, row, "NetStock"),
     PendingReceived |-> ConvertedInt(cols, row, "PendingReceived"),
     SafetyStock     |-> ConvertedInt(cols, row, "SafetyStock"),
     LastMonthSold   |-> ClampedSales(cols, row, "LastMonthSold"),
     MTDSold         |-> ClampedSales(cols, row, "MTDSold"),
     ArticleDescription |-> row.ArticleDescription,
     Notes           |-> Join(RangeNotes(cols, row, sales_columns))]

preprocess_data(cols, rows) ==
    [i \in 1..Len(rows) |-> PreprocessRow(cols, rows[i])]

(***************************************************************************)
(* Tables handed to the engine: typed rows plus the column set.  row.get   *)
(* returns the default when the column is absent.                          *)
(***************************************************************************)
ProcessedColumns(cols) == cols \cup {"Notes"}

Get(cols, row, col, default) == IF col \in cols THEN row[col] ELSE default

\* mutant: the larger of the two sales figures
calculate_effective_sold_qty_Larger(cols, row) ==
    Max2(Get(cols, row, "LastMonthSold", 0), Get(cols, row, "MTDSold", 0))

calculate_effective_sold_qty(cols, row) ==
    LET last_month == Get(cols, row, "LastMonthSold", 0)
        mtd == Get(cols, row, "MTDSold", 0)
    IN  IF last_month > 0 THEN last_month ELSE mtd

(***************************************************************************)
(* np.percentile(sold_quantities, 80), default (linear) method: sort, take *)
(* the virtual index 0.8 * (n - 1), interpolate between its two            *)
(* neighbours.  The result is returned times 5.                            *)
(***************************************************************************)
RECURSIVE Insert(_, _)
Insert(x, s) ==
    IF s = <<>> THEN <<x>>
    ELSE IF x <= Head(s) THEN <<x>> \o s
    ELSE <<Head(s)>> \o Insert(x, Tail(s))

RECURSIVE Sort(_)
Sort(s) == IF s = <<>> THEN <<>> ELSE Insert(Head(s), Sort(Tail(s)))

\* mutant: nearest rank, the ceil(0.8 * n)-th smallest value
Percentile80x5_NearestRank(values) ==
    5 * Sort(values)[(4 * Len(values) + 4) \div 5]

\* mutant: the lower neighbour of the virtual index, without interpolation
Percentile80x5_Lower(values) ==
    5 * Sort(values)[((4 * (Len(values) - 1)) \div 5) + 1]

Percentile80x5(values) ==
    LET n == Len(values)
        arr == Sort(values)
        index5 == 4 * (n - 1)
        previous == index5 \div 5
        gamma5 == index5 % 5
        next == Min2(previous + 1, n - 1)
        lo == arr[previous + 1]
        hi == arr[next + 1]
    IN  5 * lo + gamma5 * (hi - lo)

RECURSIVE SoldQuantities(_, _, _)
SoldQuantities(cols, rows, article) ==
    IF rows = <<>> THEN <<>>
    ELSE (IF Head(rows).Article = article
          THEN <<calculate_effective_sold_qty(cols, Head(rows))>>
          ELSE <<>>) \o SoldQuantities(cols, Tail(rows), article)

Infinity == [inf |-> TRUE, x5 |-> 0]
Finite5(x5) == [inf |-> FALSE, x5 |-> x5]

get_top20_percent_threshold(cols, rows, article) ==
    LET sold_quantities == SoldQuantities(cols, rows, article)
    IN  IF sold_quantities = <<>> THEN Infinity
        ELSE Finite5(Percentile80x5(sold_quantities))

\* mutant: qty <= threshold
Below_OrEqual(qty, threshold) == threshold.inf \/ 5 * qty <= threshold.x5

\* qty < threshold, for an integer qty
Below(qty, threshold) == threshold.inf \/ 5 * qty < threshold.x5

(***************************************************************************)
(* generate_return_recommendations: the body of the loop for row i.        *)
(* Locals(...) is the record of the local variables the body computes and  *)
(* the path it takes:                                                      *)
(*   "nd"            ND branch, a row is appended                          *)
(*   "rf"            RF branch, a row is appended                          *)
(*   "rf_no_surplus" RF branch, total_available > safety_stock fails       *)
(*   "rf_top_seller" RF branch, effective_sold_qty < top20_threshold fails *)
(*   "rf_rejected"   RF branch, the return_qty test fails                  *)
(*   "none"          neither branch                                        *)
(* A local the path does not compute holds NotComputed or 0.               *)
(***************************************************************************)
ND == <<"N", "D">>
RF == <<"R", "F">>
Modes == {"nd_only", "rf_only", "both"}
NotComputed == [inf |-> FALSE, x5 |-> -1]

\* int(safety_stock * 1.25): int() truncates toward zero
Int125(safety_stock) ==
    IF safety_stock >= 0 THEN (5 * safety_stock) \div 4
    ELSE -((5 * (-safety_stock)) \div 4)

\* mutant: nothing but the floor at 0 is kept back
MinRemaining_FloorOnly(safety_stock, last_month_sold, mtd_sold) == Max2(0, 0)

\* mutant: the gate compares effective_sold_qty with safety_stock
MinRemaining_OnEffective(safety_stock, last_month_sold, mtd_sold) ==
    IF (IF last_month_sold > 0 THEN last_month_sold ELSE mtd_sold) > safety_stock
    THEN Max2(Max2(Int125(safety_stock), safety_stock + 2), 0)
    ELSE Max2(safety_stock + 1, 0)

MinRemaining(safety_stock, last_month_sold, mtd_sold) ==
    IF last_month_sold > safety_stock \/ mtd_sold > safety_stock
    THEN LET min_remaining_25_percent == Int125(safety_stock)
             min_remaining_2_more == safety_stock + 2
         IN  Max2(Max2(min_remaining_25_percent, min_remaining_2_more), 0)
    ELSE Max2(safety_stock + 1, 0)

\* mutant: the ND branch does not test net_stock > 0
NDBranch_AnyStock(rp_type, net_stock, calculation_type) ==
    rp_type = ND /\ calculation_type \in {"nd_only", "both"}

\* if rp_type == "ND" and net_stock > 0 and calculation_type in [...]
NDBranch(rp_type, net_stock, calculation_type) ==
    rp_type = ND /\ net_stock > 0 /\ calculation_type \in {"nd_only", "both"}

\* mutant: the RF branch ignores the calculation type
RFBranch_AnyType(rp_type, calculation_type) == rp_type = RF

\* elif rp_type == "RF" and calculation_type in ["rf_only", "both"]
RFBranch(rp_type, calculation_type) ==
    rp_type = RF /\ calculation_type \in {"rf_only", "both"}

\* if total_available > safety_stock
HasSurplus(total_available, safety_stock) == total_available > safety_stock

\* mutant: min_remaining is not applied
ReturnQty_PotentialOnly(potential_return, max_return) == potential_return

\* return_qty = min(potential_return, max_return)
ReturnQty(potential_return, max_return) == Min2(potential_return, max_return)

\* mutant: a return of one piece is accepted
Accepted_FloorOne(return_qty, net_stock) == return_qty >= 1 /\ return_qty <= net_stock

\* mutant: the stock bound is not tested
Accepted_NoStockBound(return_qty, net_stock) == return_qty >= 2

\* if return_qty >= 2 and return_qty <= net_stock
Accepted(return_qty, net_stock) == return_qty >= 2 /\ return_qty <= net_stock

Locals(cols, rows, i, calculation_type) ==
    LET row == rows[i]
        rp_type == row.RPType
        net_stock == row.NetStock
        pending_received == row.PendingReceived
        safety_stock == row.SafetyStock
        last_month_sold == Get(cols, row, "LastMonthSold", 0)
        mtd_sold == Get(cols, row, "MTDSold", 0)
        effective_sold_qty == calculate_effective_sold_qty(cols, row)
        total_available == net_stock + pending_received
        top20_threshold == get_top20_percent_threshold(cols, rows, row.Article)
        min_remaining == MinRemaining(safety_stock, last_month_sold, mtd_sold)
        potential_return == total_available - safety_stock
        max_return == total_available - min_remaining
        return_qty == ReturnQty(potential_return, max_return)
        base == [path |-> "none", effective_sold_qty |-> effective_sold_qty,
                 total_available |-> 0, top20_threshold |-> NotComputed,
                 min_remaining |-> 0, potential_return |-> 0, max_return |-> 0,
                 return_qty |-> 0]
    IN  IF NDBranch(rp_type, net_stock, calculation_type)
        THEN [base EXCEPT !.path = "nd", !.return_qty = net_stock]
        ELSE IF RFBranch(rp_type, calculation_type)
        THEN IF ~HasSurplus(total_available, safety_stock)
             THEN [base EXCEPT !.path = "rf_no_surplus",
                               !.total_available = total_available]
             ELSE IF ~Below(effective_sold_qty, top20_threshold)
             THEN [base EXCEPT !.path = "rf_top_seller",
                               !.total_available = total_available,
                               !.top20_threshold = top20_threshold]
             ELSE [path |-> IF Accepted(return_qty, net_stock)
                            THEN "rf" ELSE "rf_rejected",
                   effective_sold_qty |-> effective_sold_qty,
                   total_available |-> total_available,
                   top20_threshold |-> top20_threshold,
                   min_remaining |-> min_remaining,
                   potential_return |-> potential_return,
                   max_return |-> max_return,
                   return_qty |-> return_qty]
        ELSE base

Emits(l) == l.path \in {"nd", "rf"}

\* row.get('Article Description', ''): the cell as uploaded, or ''
NoDescription == [k |-> "str", s |-> <<>>]

\* the dict appended to recommendations for row i
Recommendation(cols, row, l) ==
    LET carried == Get(cols, row, "Notes", "")
        notes_parts ==
            IF l.path = "nd"
            THEN <<"ND clearance">>
                 \o (IF l.effective_sold_qty > 0 THEN <<"has sales record">> ELSE <<>>)
                 \o (IF carried # "" THEN <<carried>> ELSE <<>>)
            ELSE <<"RF surplus">>
                 \o (IF carried # "" THEN <<carried>> ELSE <<>>)
    IN  [Article        |-> row.Article,
         ProductDesc    |-> Get(cols, row, "ArticleDescription", NoDescription),
         OM             |-> row.OM,
         ReturnSite     |-> row.Site,
         ReceiveSite    |-> "D001",
         ReturnQty      |-> l.return_qty,
         RPType         |-> row.RPType,
         StockQty       |-> row.NetStock,
         SafetyQty      |-> row.SafetyStock,
         LastMonthSold  |-> Get(cols, row, "LastMonthSold", 0),
         MTDSold        |-> Get(cols, row, "MTDSold", 0),
         RemainingStock |-> row.NetStock - l.return_qty,
         Notes          |-> Join(notes_parts),
         Type           |-> IF l.path = "nd" THEN "ND" ELSE "RF"]

AllLocals(cols, rows, calculation_type) ==
    [i \in 1..Len(rows) |-> Locals(cols, rows, i, calculation_type)]

\* mutant: each recommendation is put in front of the earlier ones
RECURSIVE Collect_Prepend(_, _, _, _)
Collect_Prepend(cols, rows, ls, i) ==
    IF i > Len(rows) THEN <<>>
    ELSE Collect_Prepend(cols, rows, ls, i + 1)
         \o (IF Emits(ls[i]) THEN <<Recommendation(cols, rows[i], ls[i])>> ELSE <<>>)

RECURSIVE Collect(_, _, _, _)
Collect(cols, rows, ls, i) ==
    IF i > Len(rows) THEN <<>>
    ELSE (IF Emits(ls[i]) THEN <<Recommendation(cols, rows[i], ls[i])>> ELSE <<>>)
         \o Collect(cols, rows, ls, i + 1)

generate_return_recommendations(cols, rows, calculation_type) ==
    Collect(cols, rows, AllLocals(cols, rows, calculation_type), 1)

(***************************************************************************)
(* quality_check(recommendations_df, original_df).  A finding is the line  *)
(* appended to checks: which check, passed or not, and for a failed        *)
(* consistency check the Article and OM it names.  A subscript of a column *)
(* the table does not have raises KeyError and no list is returned.        *)
(***************************************************************************)
Pass(check) == [check |-> check, ok |-> TRUE, article |-> <<>>, om |-> <<>>]
Fail(check) == [check |-> check, ok |-> FALSE, article |-> <<>>, om |-> <<>>]
Mismatch(article, om) ==
    [check |-> "consistency", ok |-> FALSE, article |-> article, om |-> om]

Found(finding) == [raised |-> "", finding |-> finding]
KeyError(col) == [raised |-> col, finding |-> Pass("none")]

\* the columns of a recommendation table: pd.DataFrame([]) has none
RecColumns(recs) == IF recs = <<>> THEN {} ELSE DOMAIN recs[1]

\* original_df[(original_df['Article'] == row['Article']) &
\*             (original_df['Site'] == row['Return Site'])]
lookup == <<<<"original", "Article">>, <<"rec", "Article">>,
            <<"original", "Site">>, <<"rec", "ReturnSite">>>>

RECURSIVE MissingKey(_, _, _, _)
MissingKey(rec_cols, cols, keys, i) ==
    IF i > Len(keys) THEN ""
    ELSE IF keys[i][2] \notin (IF keys[i][1] = "rec" THEN rec_cols ELSE cols)
    THEN keys[i][2]
    ELSE MissingKey(rec_cols, cols, keys, i + 1)

original_row(rows, rec) ==
    {i \in 1..Len(rows) : rows[i].Article = rec.Article /\ rows[i].Site = rec.ReturnSite}

\* original_row.iloc[0]
iloc0(matches) == CHOOSE i \in matches : \A j \in matches : i <= j

\* 1. Article and OM consistency: the for ... else loop from row k on
RECURSIVE Consistency(_, _, _, _, _)
Consistency(rec_cols, recs, cols, rows, k) ==
    IF k > Len(recs) THEN Found(Pass("consistency"))
    ELSE IF MissingKey(rec_cols, cols, lookup, 1) # ""
    THEN KeyError(MissingKey(rec_cols, cols, lookup, 1))
    ELSE LET matches == original_row(rows, recs[k])
         IN  IF matches # {} /\ "OM" \notin cols THEN KeyError("OM")
             ELSE IF "OM" \notin rec_cols THEN KeyError("OM")
             ELSE IF matches # {} /\ rows[iloc0(matches)].OM = recs[k].OM
             THEN Consistency(rec_cols, recs, cols, rows, k + 1)
             ELSE Found(Mismatch(recs[k].Article, recs[k].OM))

\* 2. all(recommendations_df['Return Qty'] > 0)
Positivity(rec_cols, recs) ==
    IF "ReturnQty" \notin rec_cols THEN KeyError("ReturnQty")
    ELSE IF \A k \in 1..Len(recs) : recs[k].ReturnQty > 0
    THEN Found(Pass("positivity"))
    ELSE Found(Fail("positivity"))

\* 3. Return Qty against the stock of the first matching original row
RECURSIVE StockBound(_, _, _, _, _)
StockBound(rec_cols, recs, cols, rows, k) ==
    IF k > Len(recs) THEN Found(Pass("stock"))
    ELSE IF MissingKey(rec_cols, cols, lookup, 1) # ""
    THEN KeyError(MissingKey(rec_cols, cols, lookup, 1))
    ELSE LET matches == original_row(rows, recs[k])
         IN  IF matches = {}
             THEN StockBound(rec_cols, recs, cols, rows, k + 1)
             ELSE IF "NetStock" \notin cols THEN KeyError("NetStock")
             ELSE IF "ReturnQty" \notin rec_cols THEN KeyError("ReturnQty")
             ELSE IF recs[k].ReturnQty > rows[iloc0(matches)].NetStock
             THEN Found(Fail("stock"))
             ELSE StockBound(rec_cols, recs, cols, rows, k + 1)

\* 4. all(len(str(art)) <= 12 for art in recommendations_df['Article'])
Format(rec_cols, recs) ==
    IF "Article" \notin rec_cols THEN KeyError("Article")
    ELSE IF \A k \in 1..Len(recs) : Len(recs[k].Article) <= ArticleWidth
    THEN Found(Pass("format"))
    ELSE Found(Fail("format"))

RECURSIVE RunChecks(_, _)
RunChecks(results, i) ==
    IF i > Len(results) THEN [raised |-> "", findings |-> <<>>]
    ELSE IF results[i].raised # ""
    THEN [raised |-> results[i].raised, findings |-> <<>>]
    ELSE LET rest == RunChecks(results, i + 1)
         IN  IF rest.raised # "" THEN rest
             ELSE [raised |-> "", findings |-> <<results[i].finding>> \o rest.findings]

quality_check(recs, cols, rows) ==
    IF recs = <<>>
    THEN [raised |-> "", findings |-> <<Pass("none")>>]
    ELSE LET rec_cols == RecColumns(recs)
         IN  RunChecks(<<Consistency(rec_cols, recs, cols, rows, 1),
                         Positivity(rec_cols, recs),
                         StockBound(rec_cols, recs, cols, rows, 1),
                         Format(rec_cols, recs)>>, 1)

(***************************************************************************)
(* Uploaded tables.                                                        *)
(***************************************************************************)
Str(s) == [k |-> "str", s |-> s]
NaNText == [k |-> "nan", s |-> <<>>]
Num(v) == [k |-> "num", h |-> 2 * v]
Half(h) == [k |-> "num", h |-> h]
NaNNum == [k |-> "nan", h |-> 0]
BadNum == [k |-> "bad", h |-> 0]

\* the columns main asks the upload to contain
RequiredColumns == AllColumns \cup {"ArticleDescription"}

\* column sets of the uploads: complete, or one sales column absent
ColumnSets ==
    {RequiredColumns, RequiredColumns \ {"LastMonthSold"}, RequiredColumns \ {"MTDSold"}}

\* the field of an absent column holds the placeholder
Canonical(cols, row) ==
    [c \in DOMAIN row |->
        IF c \in cols THEN row[c]
        ELSE IF c \in int_columns THEN NaNNum
        ELSE IF c = "Notes" THEN "" ELSE NaNText]

\* Tables of whole-number rows: a first row over a wider range of stock
\* figures, followed by up to MaxRows - 1 stores carrying article 7 or 8.
FirstRows ==
    [Article : {Str(<<"7">>)},
     OM : {Str(<<"A">>)},
     RPType : {Str(ND), Str(RF)},
     Site : {Str(<<"H", "1">>)},
     NetStock : {Num(0), Num(3), Num(17)},
     PendingReceived : {Num(0), Num(2)},
     SafetyStock : {Num(-3), Num(0), Num(1), Num(12)},
     LastMonthSold : {Num(v) : v \in 0..MaxSold},
     MTDSold : {Num(0), Num(13)},
     ArticleDescription : {Str(<<"d">>)},
     Notes : {""}]

\* rp_type and last-month sales of the other stores
PeerKinds == {<<RF, 0>>, <<RF, 20>>}

PeerRows ==
    {[Article |-> a, OM |-> Str(<<"B">>), RPType |-> Str(kind[1]),
      Site |-> Str(<<"H", "2">>), NetStock |-> Num(3),
      PendingReceived |-> Num(0), SafetyStock |-> Num(0),
      LastMonthSold |-> Num(kind[2]), MTDSold |-> Num(0),
      ArticleDescription |-> Str(<<"d">>), Notes |-> ""] :
        a \in {Str(<<" ", "7", ".", "0">>), Str(<<"8">>)}, kind \in PeerKinds}

RECURSIVE SeqsUpTo(_, _)
SeqsUpTo(S, n) ==
    IF n = 0 THEN {<<>>}
    ELSE LET shorter == SeqsUpTo(S, n - 1)
         IN  shorter \cup {<<x>> \o t : x \in S, t \in {u \in shorter : Len(u) = n - 1}}

StoreTables == {<<f>> \o peers : f \in FirstRows, peers \in SeqsUpTo(PeerRows, MaxRows - 1)}

\* Tables as test_return_recommendations builds them, with a Notes column
\* and the article written the same way in both stores: a store of low
\* sales next to the store that sells most.
TestTables ==
    LET low == [Article : {Str(<<"7">>)}, OM : {Str(<<"A">>)}, RPType : {Str(RF)},
                Site : {Str(<<"H", "1">>)}, NetStock : {Num(3), Num(17)},
                PendingReceived : {Num(0), Num(2)},
                SafetyStock : {Num(-3), Num(12)},
                LastMonthSold : {Num(0), Num(1)}, MTDSold : {Num(0), Num(13)},
                ArticleDescription : {Str(<<"d">>)}, Notes : {""}]
        high == [Article |-> Str(<<"7">>), OM |-> Str(<<"A">>), RPType |-> Str(RF),
                 Site |-> Str(<<"H", "2">>), NetStock |-> Num(3),
                 PendingReceived |-> Num(0), SafetyStock |-> Num(0),
                 LastMonthSold |-> Num(20), MTDSold |-> Num(0),
                 ArticleDescription |-> Str(<<"d">>), Notes |-> ""]
    IN  {<<l, high>> : l \in low}

\* One-row tables of malformed cells: missing, unparsable, negative,
\* fractional, and sales figures at, just above and above the cap.
RawSales ==
    {NaNNum, BadNum, Num(-1), Half(5), Num(0),
     Num(SalesCap), Half(2 * SalesCap + 1), Num(SalesCap + 1)}

RawRows ==
    [Article : {Str(<<"7">>), NaNText},
     OM : {Str(<<"A", " ">>)},
     RPType : {Str(ND), Str(<<" ", "R", "F">>), Str(<<"X">>)},
     Site : {Str(<<"H", "1">>)},
     NetStock : {BadNum, Num(-1), Half(7)},
     PendingReceived : {NaNNum, Num(2)},
     SafetyStock : {Half(-1), Num(1)},
     LastMonthSold : RawSales,
     MTDSold : RawSales,
     ArticleDescription : {NaNText},
     Notes : {""}]

RawTables == {<<r>> : r \in RawRows}

\* One-row uploads of a store that is cleared (ND, 3 pieces): each column of
\* the required ones absent in turn, a Notes column filled in by the user
\* with sales within and above the cap, and article cells of various shapes.
SchemaRow(article, last_month_sold, notes) ==
    [Article |-> Str(article), OM |-> Str(<<"A">>), RPType |-> Str(ND),
     Site |-> Str(<<"H", "1">>), NetStock |-> Num(3),
     PendingReceived |-> Num(0), SafetyStock |-> Num(0),
     LastMonthSold |-> last_month_sold, MTDSold |-> Num(0),
     ArticleDescription |-> Str(<<"d">>), Notes |-> notes]

SchemaColumnSets ==
    {RequiredColumns \cup {"Notes"}} \cup {RequiredColumns \ {c} : c \in RequiredColumns}

Twelve == <<"1", "0", "6", "5", "4", "5", "3", "0", "9", "0", "0", "1">>

ArticleShapes ==
    {Twelve, Twelve \o <<"0">>, Twelve \o <<"0", ".", "0">>, <<"A", ".", "5">>,
     <<" ", "A", "7", " ">>, <<"7", ".", "5", ".", "1">>, <<".", "5">>, <<>>}

SchemaTables ==
    {<<cols, <<SchemaRow(<<"7">>, last_month_sold, notes)>>>> :
        cols \in SchemaColumnSets,
        last_month_sold \in {Num(1), Num(SalesCap + 1)},
        notes \in {"", "hold for buyer"}}
    \cup {<<RequiredColumns, <<SchemaRow(article, Num(1), "")>>>> :
              article \in ArticleShapes}

\* Uploads that list one store twice for an article: the first line without
\* or with stock, the second with stock and the same or another OM.
TwinTables ==
    {<<[SchemaRow(<<"7">>, Num(1), "") EXCEPT !.NetStock = net_stock],
       [SchemaRow(<<"7">>, Num(1), "") EXCEPT !.OM = om]>> :
        net_stock \in {Num(0), Num(3)}, om \in {Str(<<"A">>), Str(<<"B">>)}}

\* Tables built by hand as in test_quality_check: an original table with
\* the four columns the checks read, whose second row is another article or
\* shares Article and Site with the first, and a recommendation table with
\* the column names of the test (Transfer Site, Transfer Qty) or those the
\* engine writes (Return Site, Return Qty).
Candy == <<"C", "a", "n", "d", "y">>
Hippo == <<"H", "i", "p", "p", "o">>
H001 == <<"H", "0", "0", "1">>
H002 == <<"H", "0", "0", "2">>
OtherArticle == <<"1", "0", "6", "5", "4", "5", "3", "0", "9", "0", "0", "2">>

OriginalColumns == {"Article", "OM", "Site", "NetStock"}

OriginalTables ==
    LET first == [Article |-> Twelve, OM |-> Candy, Site |-> H001, NetStock |-> 10]
        other == [Article |-> OtherArticle, OM |-> Hippo, Site |-> H002, NetStock |-> 15]
        twin == [Article |-> Twelve, OM |-> Hippo, Site |-> H001, NetStock |-> 3]
    IN  {<<first, other>>, <<first, twin>>, <<twin, first>>}

TransferRecs ==
    [Article : {Twelve}, OM : {Candy}, TransferSite : {H001}, TransferQty : {5}]

ReturnRecs ==
    [Article : {Twelve}, OM : {Candy, Hippo}, ReturnSite : {H001, H002},
     ReturnQty : {0, 5, 12}]

RecommendationTables == SeqsUpTo(TransferRecs, 1) \cup SeqsUpTo(ReturnRecs, MaxRecs)

NoResults == [m \in Modes |-> <<>>]

NotChecked == [raised |-> "", findings |-> <<>>]

NoChecks == [m \in Modes |-> NotChecked]

\* an upload read by pd.read_excel
Uploaded ==
    /\ \/ /\ columns = RequiredColumns
          /\ df \in StoreTables
       \/ /\ columns = RequiredColumns \cup {"Notes"}
          /\ df \in TestTables
       \/ /\ columns = RequiredColumns
          /\ df \in TwinTables
       \/ /\ columns \in ColumnSets
          /\ \E t \in RawTables : df = [i \in 1..Len(t) |-> Canonical(columns, t[i])]
       \/ \E t \in SchemaTables :
             /\ columns = t[1]
             /\ df = [i \in 1..Len(t[2]) |-> Canonical(columns, t[2][i])]

Init ==
    /\ \/ /\ pc = "loaded"
          /\ Uploaded
          /\ df_processed = <<>>
          /\ recommendations = NoResults
       \/ /\ pc = "handbuilt"
          /\ columns = OriginalColumns
          /\ df = <<>>
          /\ df_processed \in OriginalTables
          /\ \E recs \in RecommendationTables :
                recommendations = [NoResults EXCEPT !["both"] = recs]
    /\ computed = {}
    /\ evals = NoResults
    /\ raised = ""
    /\ checks = NoChecks

\* mutant: preprocess_data writes into the table it was handed
AfterCopy_InPlace(rows, written) == written

\* df_processed = df.copy(): the conversions, the clamp and the Notes column
\* are written to the copy, the rows of the caller's table stay as they were
AfterCopy(rows, written) == rows

(***************************************************************************)
(* processed_df = preprocess_data(current_file)                            *)
(***************************************************************************)
Preprocess ==
    /\ pc = "loaded"
    /\ IF "Article" \in columns
       THEN /\ df_processed' = preprocess_data(columns, df)
            /\ df' = AfterCopy(df, preprocess_data(columns, df))
            /\ pc' = "processed"
            /\ UNCHANGED raised
       ELSE /\ pc' = "failed"
            /\ raised' = "Article"
            /\ UNCHANGED <<df, df_processed>>
    /\ UNCHANGED <<columns, computed, recommendations, evals, checks>>

(***************************************************************************)
(* test_return_recommendations hands a table it built from whole numbers   *)
(* and strings to the engine without preprocess_data.                      *)
(***************************************************************************)
IsWhole(value) == value.k = "num" /\ value.h % 2 = 0

Typed(cols, row) ==
    [Article         |-> IF "Article" \in cols THEN row.Article.s ELSE NoText,
     OM              |-> IF "OM" \in cols THEN row.OM.s ELSE NoText,
     RPType          |-> IF "RPType" \in cols THEN row.RPType.s ELSE NoText,
     Site            |-> IF "Site" \in cols THEN row.Site.s ELSE NoText,
     NetStock        |-> IF "NetStock" \in cols THEN row.NetStock.h \div 2 ELSE 0,
     PendingReceived |-> IF "PendingReceived" \in cols
                         THEN row.PendingReceived.h \div 2 ELSE 0,
     SafetyStock     |-> IF "SafetyStock" \in cols THEN row.SafetyStock.h \div 2 ELSE 0,
     LastMonthSold   |-> IF "LastMonthSold" \in cols THEN row.LastMonthSold.h \div 2 ELSE 0,
     MTDSold         |-> IF "MTDSold" \in cols THEN row.MTDSold.h \div 2 ELSE 0,
     ArticleDescription |-> row.ArticleDescription,
     Notes           |-> row.Notes]

WholeTable(cols, rows) ==
    \A i \in 1..Len(rows) :
        /\ \A c \in cols \cap int_columns : IsWhole(rows[i][c])
        /\ \A c \in cols \cap ({"Article"} \cup string_columns) : rows[i][c].k = "str"

Direct ==
    /\ pc = "loaded"
    /\ WholeTable(columns, df)
    /\ df_processed' = [i \in 1..Len(df) |-> Typed(columns, df[i])]
    /\ pc' = "direct"
    /\ UNCHANGED <<columns, df, computed, recommendations, evals, raised, checks>>

\* the columns of the table handed to the engine
EngineColumns ==
    IF pc \in {"direct", "handbuilt"} THEN columns ELSE ProcessedColumns(columns)

(***************************************************************************)
(* generate_return_recommendations(df, calculation_type).  main runs the   *)
(* type the user selected; the tests run "both", "nd_only", "rf_only" in   *)
(* this order on the same table, which is the order followed here: the     *)
(* result of a type depends on the table and the type only.                *)
(***************************************************************************)
\* the columns the loop body reads with row[...], in the order it reads them
subscripted ==
    <<"Article", "OM", "RPType", "Site", "NetStock", "PendingReceived", "SafetyStock">>

Range(seq) == {seq[i] : i \in 1..Len(seq)}

RECURSIVE FirstMissing(_, _, _)
FirstMissing(cols, names, i) ==
    IF names[i] \notin cols THEN names[i] ELSE FirstMissing(cols, names, i + 1)

NextType ==
    IF computed = {} THEN "both"
    ELSE IF computed = {"both"} THEN "nd_only"
    ELSE "rf_only"

Recommend(calculation_type) ==
    /\ pc \in {"processed", "direct"}
    /\ calculation_type \notin computed
    /\ calculation_type = NextType
    /\ pc = "processed" => \A m \in computed : checks[m] # NotChecked
    /\ LET cols == EngineColumns
       IN  IF Len(df_processed) > 0 /\ ~(Range(subscripted) \subseteq cols)
           THEN /\ pc' = "failed"
                /\ raised' = FirstMissing(cols, subscripted, 1)
                /\ UNCHANGED <<computed, recommendations, evals>>
           ELSE /\ recommendations' = [recommendations EXCEPT ![calculation_type] =
                        generate_return_recommendations(cols, df_processed, calculation_type)]
                /\ evals' = [evals EXCEPT ![calculation_type] =
                        AllLocals(cols, df_processed, calculation_type)]
                /\ computed' = computed \cup {calculation_type}
                /\ UNCHANGED <<pc, raised>>
    /\ UNCHANGED <<columns, df, df_processed, checks>>

(***************************************************************************)
(* quality_results = quality_check(recommendations_df, processed_df): main *)
(* runs it on the table the engine returned, test_quality_check on the     *)
(* two tables it built.                                                    *)
(***************************************************************************)
QualityCheck(calculation_type) ==
    /\ \/ pc = "processed" /\ calculation_type \in computed
       \/ pc = "handbuilt" /\ calculation_type = "both"
    /\ checks[calculation_type] = NotChecked
    /\ checks' = [checks EXCEPT ![calculation_type] =
            quality_check(recommendations[calculation_type], EngineColumns, df_processed)]
    /\ UNCHANGED <<pc, columns, df, df_processed, computed, recommendations, evals,
                   raised>>

Next ==
    \/ Preprocess
    \/ Direct
    \/ \E calculation_type \in Modes : Recommend(calculation_type)
    \/ \E calculation_type \in Modes : QualityCheck(calculation_type)

Spec == Init /\ [][Next]_vars

(***************************************************************************)
(* Properties.                                                             *)
(*                                                                         *)
(* The k-th row of recommendations[m] comes from the k-th input row whose  *)
(* loop body appended one; evals[m] records which rows did.                *)
(***************************************************************************)
EmittedUpTo(ls, i) == Cardinality({j \in 1..i : Emits(ls[j])})

RecOf(m, i) == recommendations[m][EmittedUpTo(evals[m], i)]

RowsOf(m) == 1..Len(evals[m])

OneRecPerEmittingRow(m) ==
    /\ Len(evals[m]) = Len(df_processed)
    /\ Len(recommendations[m]) = EmittedUpTo(evals[m], Len(df_processed))

\* C1: every recommendation, under every calculation type, has
\* 0 < Return Qty <= SaSa Net Stock of the input row it was derived from.
C1_ReturnQtyWithinStock ==
    \A m \in computed :
        /\ OneRecPerEmittingRow(m)
        /\ \A i \in RowsOf(m) :
              Emits(evals[m][i]) =>
                  /\ 0 < RecOf(m, i).ReturnQty
                  /\ RecOf(m, i).ReturnQty <= df_processed[i].NetStock
                  /\ RecOf(m, i).StockQty = df_processed[i].NetStock

C1_Witness ==
    /\ "both" \in computed
    /\ \E i, j \in RowsOf("both") :
          /\ evals["both"][i].path = "nd"
          /\ evals["both"][j].path = "rf"
          /\ RecOf("both", j).ReturnQty < df_processed[j].NetStock

\* C2: under nd_only or both, an ND row with net_stock > 0 yields exactly one
\* recommendation, of Type ND with Return Qty = net_stock, whatever its
\* sales, safety stock, pending received and threshold; an ND row with
\* net_stock = 0 yields none.
C2_NDReturnsWholeStock ==
    \A m \in computed \cap {"nd_only", "both"} :
        /\ OneRecPerEmittingRow(m)
        /\ \A i \in RowsOf(m) :
              df_processed[i].RPType = ND =>
                  IF df_processed[i].NetStock > 0
                  THEN /\ Emits(evals[m][i])
                       /\ RecOf(m, i).Type = "ND"
                       /\ RecOf(m, i).ReturnQty = df_processed[i].NetStock
                       /\ RecOf(m, i).Article = df_processed[i].Article
                  ELSE ~Emits(evals[m][i])

C2_Witness ==
    /\ "nd_only" \in computed
    /\ \E i \in RowsOf("nd_only") :
          /\ df_processed[i].RPType = ND
          /\ df_processed[i].NetStock = 17
          /\ df_processed[i].SafetyStock = 12
          /\ df_processed[i].PendingReceived = 2
          /\ df_processed[i].MTDSold = 13
          /\ RecOf("nd_only", i).ReturnQty = 17

\* C3: every RF recommendation (from a normalized table) has
\* 2 <= return_qty <= net_stock and
\* net_stock + pending_received - return_qty >= min_remaining, min_remaining
\* being the value of the sales-versus-safety branch the row takes.
C3_RFKeepsMinRemaining ==
    \A m \in computed :
        \A i \in RowsOf(m) :
            pc = "processed" /\ evals[m][i].path = "rf" =>
                LET row == df_processed[i]
                    q == RecOf(m, i).ReturnQty
                    s == row.SafetyStock
                    sold_above_safety ==
                        RecOf(m, i).LastMonthSold > s \/ RecOf(m, i).MTDSold > s
                    floor125 == (5 * s) \div 4
                    wanted ==
                        IF sold_above_safety
                        THEN (IF floor125 >= s + 2 THEN floor125 ELSE s + 2)
                        ELSE s + 1
                IN  /\ RecOf(m, i).Type = "RF"
                    /\ 2 <= q /\ q <= row.NetStock
                    /\ evals[m][i].min_remaining = wanted
                    /\ row.NetStock + row.PendingReceived - q >= wanted

C3_Witness ==
    \E m \in computed :
        \E i \in RowsOf(m) :
            /\ pc = "processed"
            /\ evals[m][i].path = "rf"
            /\ df_processed[i].SafetyStock = 12
            /\ evals[m][i].min_remaining = 15
            /\ RecOf(m, i).ReturnQty = 4

\* C4: filter partition law.  For a table run under all three calculation
\* types: |both| = |nd_only| + |rf_only|; nd_only holds only Type ND rows, as
\* many as both holds; rf_only holds only Type RF rows, as many as both holds.
TypeCount(recs, type) == Cardinality({k \in 1..Len(recs) : recs[k].Type = type})

C4_FilterPartition ==
    computed = Modes =>
        /\ Len(recommendations["both"])
              = Len(recommendations["nd_only"]) + Len(recommendations["rf_only"])
        /\ \A k \in 1..Len(recommendations["nd_only"]) :
              recommendations["nd_only"][k].Type = "ND"
        /\ \A k \in 1..Len(recommendations["rf_only"]) :
              recommendations["rf_only"][k].Type = "RF"
        /\ Len(recommendations["nd_only"]) = TypeCount(recommendations["both"], "ND")
        /\ Len(recommendations["rf_only"]) = TypeCount(recommendations["both"], "RF")

C4_Witness ==
    /\ computed = Modes
    /\ Len(recommendations["nd_only"]) >= 1
    /\ Len(recommendations["rf_only"]) >= 1
    /\ Len(recommendations["both"]) >= 2

\* C5: after preprocess_data every integer column of every row holds an
\* integer >= 0, and the two sales columns hold at most 100000, whatever the
\* raw cell was (negative, unparsable, missing, fractional, oversized).
C5_NormalizedIntegerRange ==
    pc = "processed" =>
        /\ Len(df_processed) = Len(df)
        /\ \A i \in 1..Len(df_processed) :
              \A c \in int_columns \cap columns :
                  /\ df_processed[i][c] \in Nat
                  /\ c \in {"LastMonthSold", "MTDSold"} => df_processed[i][c] <= 100000

C5_Witness ==
    /\ pc = "processed"
    /\ df[1].NetStock = Num(-1)
    /\ df[1].PendingReceived = NaNNum
    /\ df[1].LastMonthSold = Num(100001)
    /\ df[1].MTDSold = BadNum
    /\ df_processed[1].NetStock = 0
    /\ df_processed[1].LastMonthSold = 100000

\* C6: sales-range guard.  A sales column whose integer-coerced value exceeds
\* 100000 is set to exactly 100000 and adds one annotation naming the column;
\* otherwise it keeps its coerced value and adds none.  Two annotations are
\* joined by one "; ", and without any the notes are the empty string.
C6_SalesRangeGuard ==
    pc = "processed" =>
        \A i \in 1..Len(df_processed) :
            LET coerced(c) == safe_convert_to_int(df[i][c])
                over(c) == c \in columns /\ coerced(c) > 100000
                out == df_processed[i]
            IN  /\ \A c \in {"LastMonthSold", "MTDSold"} \cap columns :
                      out[c] = IF over(c) THEN 100000 ELSE coerced(c)
                /\ out.Notes =
                      IF over("LastMonthSold") /\ over("MTDSold")
                      THEN "Last Month Sold Qty out of range; MTD Sold Qty out of range"
                      ELSE IF over("LastMonthSold") THEN "Last Month Sold Qty out of range"
                      ELSE IF over("MTDSold") THEN "MTD Sold Qty out of range"
                      ELSE ""

C6_Witness ==
    /\ pc = "processed"
    /\ df[1].LastMonthSold = Num(100001)
    /\ df[1].MTDSold = Num(100001)
    /\ df_processed[1].MTDSold = 100000
    /\ df_processed[1].Notes
          = "Last Month Sold Qty out of range; MTD Sold Qty out of range"

\* C7: effective_sold_qty is last_month_sold when last_month_sold > 0 and
\* mtd_sold otherwise, a missing column counting as 0; computing it leaves
\* the table as it was.
C7_Value ==
    \A m \in computed :
        \A i \in RowsOf(m) :
            LET last_month == IF "LastMonthSold" \in EngineColumns
                              THEN df_processed[i].LastMonthSold ELSE 0
                mtd == IF "MTDSold" \in EngineColumns
                       THEN df_processed[i].MTDSold ELSE 0
                e == evals[m][i].effective_sold_qty
            IN  /\ last_month > 0 => e = last_month
                /\ ~(last_month > 0) => e = mtd

C7_EffectiveSoldQty ==
    /\ []C7_Value
    /\ [][pc # "loaded" => df_processed' = df_processed /\ df' = df]_vars

C7_Witness ==
    /\ "both" \in computed
    /\ "LastMonthSold" \notin columns
    /\ df[1].LastMonthSold = NaNNum
    /\ df_processed[1].MTDSold = 100000
    /\ evals["both"][1].effective_sold_qty = 100000

(***************************************************************************)
(* The 80th percentile stated without sorting: the k-th smallest (k from   *)
(* 0) of the sales of article a is the value v with at most k records      *)
(* below v and more than k records at or below v.                          *)
(***************************************************************************)
Started == pc \in {"processed", "direct"}

RecordsOf(a) == {i \in 1..Len(df_processed) : df_processed[i].Article = a}

SoldOf(i) == calculate_effective_sold_qty(EngineColumns, df_processed[i])

KthSmallest(a, k) ==
    CHOOSE v \in {SoldOf(i) : i \in RecordsOf(a)} :
        /\ Cardinality({i \in RecordsOf(a) : SoldOf(i) < v}) <= k
        /\ Cardinality({i \in RecordsOf(a) : SoldOf(i) <= v}) > k

\* x5 / 5 = s[k] + f * (s[k+1] - s[k]) with 0.8 * (n - 1) = k + f, f = r / 5
IsInterpolated80(a, x5) ==
    LET n == Cardinality(RecordsOf(a))
    IN  \E k \in 0..(n - 1), r \in 0..4 :
            /\ 4 * (n - 1) = 5 * k + r
            /\ x5 = IF r = 0 THEN 5 * KthSmallest(a, k)
                    ELSE 5 * KthSmallest(a, k)
                         + r * (KthSmallest(a, k + 1) - KthSmallest(a, k))

AbsentArticle == <<"9">>

ThresholdComputed(l) == l.path \in {"rf_top_seller", "rf_rejected", "rf"}

\* C8: get_top20_percent_threshold(T, a) is the linear-interpolation 80th
\* percentile of effective_sold_qty over all records of article a, of every
\* rp_type, and +infinity when T has no record of a.
C8_InterpolatedPercentile ==
    Started =>
        /\ \A a \in {df_processed[i].Article : i \in 1..Len(df_processed)} :
              LET t == get_top20_percent_threshold(EngineColumns, df_processed, a)
              IN  ~t.inf /\ IsInterpolated80(a, t.x5)
        /\ RecordsOf(AbsentArticle) = {}
        /\ get_top20_percent_threshold(EngineColumns, df_processed, AbsentArticle).inf
        /\ \A m \in computed :
              \A i \in RowsOf(m) :
                  ThresholdComputed(evals[m][i]) =>
                      /\ ~evals[m][i].top20_threshold.inf
                      /\ IsInterpolated80(df_processed[i].Article,
                                          evals[m][i].top20_threshold.x5)

\* the threshold lies strictly between two sales figures, one of them an ND
\* record's: no nearest-rank rule returns it
C8_Witness ==
    /\ "both" \in computed
    /\ \E i, j \in RowsOf("both") :
          /\ df_processed[i].Article = df_processed[j].Article
          /\ df_processed[i].RPType = ND
          /\ SoldOf(i) = 2
          /\ SoldOf(j) = 20
          /\ evals["both"][j].path = "rf_top_seller"
          /\ evals["both"][j].top20_threshold.x5 = 82

\* C9: when an article has exactly one record, the threshold is that
\* record's own effective_sold_qty and the record gets no RF recommendation,
\* whatever its stock, pending and safety values.
C9_LoneRecordNeverRF ==
    Started =>
        \A i \in 1..Len(df_processed) :
            RecordsOf(df_processed[i].Article) = {i} =>
                /\ get_top20_percent_threshold(EngineColumns, df_processed,
                                               df_processed[i].Article)
                      = [inf |-> FALSE, x5 |-> 5 * SoldOf(i)]
                /\ \A m \in computed :
                      /\ evals[m][i].path \notin {"rf", "rf_rejected"}
                      /\ \A k \in 1..Len(recommendations[m]) :
                            recommendations[m][k].Article = df_processed[i].Article
                                => recommendations[m][k].Type # "RF"

C9_Witness ==
    /\ "rf_only" \in computed
    /\ Len(df_processed) = 2
    /\ RecordsOf(df_processed[1].Article) = {1}
    /\ df_processed[1].NetStock = 17
    /\ df_processed[1].SafetyStock = 0
    /\ evals["rf_only"][1].path = "rf_top_seller"
    /\ evals["rf_only"][2].path = "rf_top_seller"

\* C10: when an article has exactly two records, both RF, with different
\* effective_sold_qty, the higher one gets no recommendation and the lower
\* one passes the percentile guard, so that it is recommended exactly when
\* its stock guards hold; and every RF recommendation is for a record whose
\* effective_sold_qty is strictly below the threshold of its article.
C10_TwoRFRecords ==
    \A m \in computed :
        /\ \A i \in RowsOf(m) :
              evals[m][i].path = "rf" =>
                  LET t == get_top20_percent_threshold(EngineColumns, df_processed,
                                                       df_processed[i].Article)
                  IN  ~t.inf /\ 5 * SoldOf(i) < t.x5
        /\ \A lo, hi \in RowsOf(m) :
              (/\ RecordsOf(df_processed[lo].Article) = {lo, hi}
               /\ df_processed[lo].RPType = RF
               /\ df_processed[hi].RPType = RF
               /\ SoldOf(lo) < SoldOf(hi))
              => /\ ~Emits(evals[m][hi])
                 /\ m \in {"rf_only", "both"} =>
                       LET row == df_processed[lo]
                           l == evals[m][lo]
                       IN  IF row.NetStock + row.PendingReceived <= row.SafetyStock
                           THEN l.path = "rf_no_surplus"
                           ELSE /\ l.path \in {"rf", "rf_rejected"}
                                /\ 5 * SoldOf(lo) < l.top20_threshold.x5
                                /\ l.path = "rf" <=>
                                      (2 <= l.return_qty /\ l.return_qty <= row.NetStock)

C10_Witness ==
    /\ pc = "processed"
    /\ "both" \in computed
    /\ Len(df_processed) = 2
    /\ df_processed[1].Article = df_processed[2].Article
    /\ df_processed[1].RPType = RF
    /\ df_processed[2].RPType = RF
    /\ SoldOf(1) = 2
    /\ SoldOf(2) = 20
    /\ evals["both"][1].path = "rf"
    /\ evals["both"][2].path = "rf_top_seller"
    /\ Len(recommendations["both"]) = 1

\* the return_qty the RF rule computes for row i: the surplus over
\* safety_stock, capped by what min_remaining leaves
ComputedReturnQty(i) ==
    LET row == df_processed[i]
        total_available == row.NetStock + row.PendingReceived
        min_remaining == MinRemaining(row.SafetyStock,
                                      Get(EngineColumns, row, "LastMonthSold", 0),
                                      Get(EngineColumns, row, "MTDSold", 0))
    IN  Min2(total_available - row.SafetyStock, total_available - min_remaining)

\* C11: under rf_only or both, an RF row yields a recommendation if and only
\* if net_stock + pending_received > safety_stock, effective_sold_qty is
\* below the article's threshold and the computed return_qty q has
\* 2 <= q <= net_stock; the recommendation is of Type RF with Return Qty q,
\* so equality of total and safety, q = 1 and q > net_stock yield no row.
C11_RFRecommendationIff ==
    \A m \in computed \cap {"rf_only", "both"} :
        /\ OneRecPerEmittingRow(m)
        /\ \A i \in RowsOf(m) :
              df_processed[i].RPType = RF =>
                  LET row == df_processed[i]
                      q == ComputedReturnQty(i)
                      threshold == get_top20_percent_threshold(
                                       EngineColumns, df_processed, row.Article)
                      below == threshold.inf \/ 5 * SoldOf(i) < threshold.x5
                  IN  /\ Emits(evals[m][i]) <=>
                            /\ row.NetStock + row.PendingReceived > row.SafetyStock
                            /\ below
                            /\ 2 <= q
                            /\ q <= row.NetStock
                      /\ Emits(evals[m][i]) =>
                            /\ RecOf(m, i).Type = "RF"
                            /\ RecOf(m, i).ReturnQty = q

\* a row below the threshold whose computed return_qty exceeds net_stock is
\* dropped, not clamped
C11_Witness ==
    /\ pc = "processed"
    /\ "rf_only" \in computed
    /\ Len(df_processed) = 2
    /\ df_processed[1].RPType = RF
    /\ df_processed[1].NetStock = 3
    /\ df_processed[1].PendingReceived = 2
    /\ ComputedReturnQty(1) = 4
    /\ evals["rf_only"][1].path = "rf_rejected"
    /\ evals["rf_only"][2].path = "rf_top_seller"
    /\ Len(recommendations["rf_only"]) = 0

\* C20: whenever the RF rule computes min_remaining, it is
\* max(floor(1.25 * safety_stock), safety_stock + 2) if last_month_sold or
\* mtd_sold, each compared on its own, exceeds safety_stock, and
\* safety_stock + 1 otherwise, in both cases floored at 0.
C20_MinRemainingRule ==
    \A m \in computed :
        \A i \in RowsOf(m) :
            evals[m][i].path \in {"rf", "rf_rejected"} =>
                LET row == df_processed[i]
                    safety_stock == row.SafetyStock
                    last_month_sold == Get(EngineColumns, row, "LastMonthSold", 0)
                    mtd_sold == Get(EngineColumns, row, "MTDSold", 0)
                IN  evals[m][i].min_remaining =
                        IF last_month_sold > safety_stock \/ mtd_sold > safety_stock
                        THEN Max2(Max2((5 * safety_stock) \div 4, safety_stock + 2), 0)
                        ELSE Max2(safety_stock + 1, 0)

\* 0 < last_month_sold <= safety_stock < mtd_sold: effective_sold_qty is
\* within safety_stock and the higher formula applies
C20_Witness ==
    /\ pc = "processed"
    /\ "both" \in computed
    /\ \E i \in RowsOf("both") :
          /\ evals["both"][i].path = "rf"
          /\ df_processed[i].SafetyStock = 12
          /\ df_processed[i].LastMonthSold = 1
          /\ df_processed[i].MTDSold = 13
          /\ SoldOf(i) = 1
          /\ evals["both"][i].min_remaining = 15

\* C19: every RF recommendation's Remaining Stock After Return
\* (net_stock - return_qty) is above Safety Qty: at least Safety Qty + 1 when
\* last_month_sold and mtd_sold are both <= Safety Qty, and at least
\* max(floor(1.25 * Safety Qty), Safety Qty + 2) when either exceeds it.
C19_RemainingAboveSafety ==
    \A m \in computed :
        \A k \in 1..Len(recommendations[m]) :
            LET rec == recommendations[m][k]
            IN  (pc = "processed" /\ rec.Type = "RF") =>
                    /\ rec.RemainingStock = rec.StockQty - rec.ReturnQty
                    /\ rec.RemainingStock > rec.SafetyQty
                    /\ rec.RemainingStock >=
                          IF rec.LastMonthSold > rec.SafetyQty \/ rec.MTDSold > rec.SafetyQty
                          THEN Max2((5 * rec.SafetyQty) \div 4, rec.SafetyQty + 2)
                          ELSE rec.SafetyQty + 1

\* the value-level anomalies of row i that normalization recovers from:
\* a negative or unparsable integer field, a sales field above the cap
Anomalous(i) ==
    \E c \in columns \cap int_columns :
        \/ df[i][c].k = "bad"
        \/ df[i][c].k = "num" /\ df[i][c].h < 0
        \/ c \in {"LastMonthSold", "MTDSold"}
              /\ df[i][c].k = "num" /\ df[i][c].h > 2 * SalesCap

\* C17: after normalization, every record with a clamped or defaulted value
\* (negative integer, unparsable integer, sales above 100000) carries an
\* annotation in its notes.
C17_AnomaliesAnnotated ==
    pc = "processed" =>
        \A i \in 1..Len(df) : Anomalous(i) => df_processed[i].Notes # ""

\* C18: a text article cell is normalized to: its digits before the '.',
\* zero-padded to 12 characters, if the trimmed value with the part from the
\* '.' on removed is all digits and at most 12 long; the trimmed value
\* unchanged, '.' and the text after it included, in every other case.
C18_ArticlePassThrough ==
    pc = "processed" =>
        \A i \in 1..Len(df) :
            df[i].Article.k = "str" =>
                LET trimmed == Strip(df[i].Article.s)
                    whole == IF HasDot(trimmed) THEN BeforeDot(trimmed) ELSE trimmed
                IN  df_processed[i].Article =
                        IF IsDigit(whole) /\ Len(whole) <= 12
                        THEN ZFill(whole, 12)
                        ELSE trimmed

\* C16: a record that comes with notes text still has that text in its notes
\* after preprocess_data, joined with the range annotations of the record.
C16_NotesAccumulated ==
    pc = "processed" =>
        \A i \in 1..Len(df) :
            ("Notes" \in columns /\ df[i].Notes # "") =>
                LET added == RangeNotes(columns, df[i], sales_columns)
                IN  df_processed[i].Notes \in
                        {Join(<<df[i].Notes>> \o added), Join(added \o <<df[i].Notes>>)}

\* C15: a run on an upload that lacks one of the required columns never
\* gets a recommendation table out of generate_return_recommendations.
C15_MissingColumnFails ==
    (pc = "processed" /\ ~(RequiredColumns \subseteq columns)) => computed = {}

\* the calculation types whose table quality_check returned findings for
Checked == {m \in Modes : checks[m] # NotChecked /\ checks[m].raised = ""}

\* C12: quality_check never raises; it returns the single pass-through
\* finding for an empty recommendation table and otherwise four findings in
\* the order consistency, positivity, stock bound, identifier shape.
C12_QualityCheckTotal ==
    \A m \in Modes :
        checks[m] # NotChecked =>
            /\ checks[m].raised = ""
            /\ IF recommendations[m] = <<>>
               THEN checks[m].findings = <<Pass("none")>>
               ELSE /\ Len(checks[m].findings) = 4
                    /\ checks[m].findings[1].check = "consistency"
                    /\ checks[m].findings[2].check = "positivity"
                    /\ checks[m].findings[3].check = "stock"
                    /\ checks[m].findings[4].check = "format"

\* recommendation k of table m does not resolve to exactly one original
\* row with its OM
Offending(m, k) ==
    LET rec == recommendations[m][k]
        matches == original_row(df_processed, rec)
    IN  ~(/\ Cardinality(matches) = 1
          /\ \A i \in matches : df_processed[i].OM = rec.OM)

\* C13: the consistency finding is a pass exactly if every recommendation's
\* (Article, Return Site) resolves to exactly one original row and that
\* row's OM is the recommendation's; otherwise it is one failure naming the
\* Article and OM of the first offending recommendation.
C13_ConsistencyExactlyOne ==
    \A m \in Checked :
        recommendations[m] # <<>> =>
            LET finding == checks[m].findings[1]
                offenders == {k \in 1..Len(recommendations[m]) : Offending(m, k)}
            IN  /\ finding.ok <=> offenders = {}
                /\ ~finding.ok =>
                      \E k \in offenders :
                          /\ \A j \in offenders : k <= j
                          /\ finding.article = recommendations[m][k].Article
                          /\ finding.om = recommendations[m][k].OM

\* C14: the stock-bound finding is a pass exactly if every recommendation's
\* Return Qty is <= the SaSa Net Stock of the original rows its
\* (Article, Return Site) identifies, be they none, one or several.
C14_StockBoundIff ==
    \A m \in Checked :
        recommendations[m] # <<>> =>
            (checks[m].findings[3].ok <=>
                \A k \in 1..Len(recommendations[m]) :
                    \A i \in original_row(df_processed, recommendations[m][k]) :
                        recommendations[m][k].ReturnQty <= df_processed[i].NetStock)

\* C21: under every calculation type the recommendations are the emitting
\* input rows in input order, at most one per row, each with the row's
\* Article, OM and Site (as Return Site), Receive Site "D001" and the row's
\* rp_type as Type; a row whose rp_type is neither ND nor RF emits nothing.
C21_OnePerRowInOrder ==
    \A m \in computed :
        /\ OneRecPerEmittingRow(m)
        /\ Len(recommendations[m]) <= Len(df_processed)
        /\ \A i \in RowsOf(m) :
              LET row == df_processed[i]
              IN  /\ row.RPType \notin {ND, RF} => ~Emits(evals[m][i])
                  /\ Emits(evals[m][i]) =>
                        /\ RecOf(m, i).Article = row.Article
                        /\ RecOf(m, i).OM = row.OM
                        /\ RecOf(m, i).ReturnSite = row.Site
                        /\ RecOf(m, i).ReceiveSite = "D001"
                        /\ RecOf(m, i).RPType = row.RPType
                        /\ \/ RecOf(m, i).Type = "ND" /\ row.RPType = ND
                           \/ RecOf(m, i).Type = "RF" /\ row.RPType = RF

\* two stores both emit: the first recommendation is the first store's
C21_Witness ==
    /\ "both" \in computed
    /\ Len(df_processed) = 2
    /\ Len(recommendations["both"]) = 2
    /\ df_processed[1].Site # df_processed[2].Site
    /\ recommendations["both"][1].ReturnSite = df_processed[1].Site
    /\ recommendations["both"][1].Type = "ND"
    /\ recommendations["both"][2].ReturnSite = df_processed[2].Site
    /\ recommendations["both"][2].Type = "RF"

\* C23: whenever the RF rule computes return_qty, max_return is the smaller
\* of potential_return and max_return, so that
\* return_qty = net_stock + pending_received - min_remaining, for negative
\* safety_stock of an un-normalized table as well.
C23_MaxReturnBinds ==
    \A m \in computed :
        \A i \in RowsOf(m) :
            evals[m][i].path \in {"rf", "rf_rejected"} =>
                LET row == df_processed[i]
                    l == evals[m][i]
                IN  /\ l.potential_return =
                          row.NetStock + row.PendingReceived - row.SafetyStock
                    /\ l.max_return <= l.potential_return
                    /\ l.return_qty = l.max_return
                    /\ l.return_qty =
                          row.NetStock + row.PendingReceived - l.min_remaining

\* a row with safety_stock -3 handed to the engine as it is
C23_Witness ==
    /\ pc = "direct"
    /\ "rf_only" \in computed
    /\ \E i \in RowsOf("rf_only") :
          /\ df_processed[i].SafetyStock = -3
          /\ df_processed[i].NetStock = 17
          /\ evals["rf_only"][i].path = "rf"
          /\ evals["rf_only"][i].min_remaining = 0
          /\ evals["rf_only"][i].potential_return > evals["rf_only"][i].max_return

\* C24: no step changes a table it was handed: the uploaded table keeps its
\* rows and columns through preprocess_data (no Notes column, no clamped
\* value), the normalized table is the same after
\* generate_return_recommendations and quality_check, and a recommendation
\* table once returned is the same after quality_check.
C24_ArgumentsUnchanged ==
    [][/\ df' = df
       /\ columns' = columns
       /\ pc # "loaded" => df_processed' = df_processed
       /\ \A m \in computed : recommendations'[m] = recommendations[m]
       /\ pc = "handbuilt" => recommendations' = recommendations]_vars

\* a sales figure above the cap is still in the uploaded table, which has no
\* Notes column, after all three steps ran
C24_Witness ==
    /\ pc = "processed"
    /\ "Notes" \notin columns
    /\ "LastMonthSold" \in columns
    /\ df[1].LastMonthSold = Num(SalesCap + 1)
    /\ df_processed[1].LastMonthSold = SalesCap
    /\ df_processed[1].Notes # ""
    /\ checks["both"] # NotChecked
    /\ Len(recommendations["both"]) = 1

\* C22: whatever the upload and the calculation type, quality_check on the
\* recommendations of the normalized table and that table returns findings
\* and none of them is a failure.
C22_PipelineSelfConsistent ==
    \A m \in Modes :
        (pc = "processed" /\ checks[m] # NotChecked) =>
            /\ checks[m].raised = ""
            /\ \A k \in 1..Len(checks[m].findings) : checks[m].findings[k].ok

====
